---- MODULE Spec2Model ----
(***************************************************************************)
(* Model of sentiment_analysis.py: main, process_reviews,                  *)
(* generate_content_from_file and get_column_index.                        *)
(*                                                                         *)
(* A workbook is a sequence of sheets.  A sheet is a header row (row 1)    *)
(* and a sequence of data rows (row 2 onward), all max_column wide.        *)
(* Header texts are sequences of characters so that strip() and lower()    *)
(* are computed; data cells and oracle texts are strings.                  *)
(***************************************************************************)
EXTENDS Integers, Sequences, FiniteSets, TLC

VARIABLES
    api_key,     \* os.environ.get("GEMINI_API_KEY"): TRUE when set
    pc,          \* position of the program
    wb,          \* workbook.worksheets: the in-memory cells
    si,          \* index of the sheet of the for loop at line 58
    ri,          \* row_num of the for loop at line 96
    cols,        \* the five *_column_index locals of the current sheet
    attempt,     \* attempt of the retry loop at line 30
    sleeps,      \* time.sleep arguments of the current review, in order
    calls,       \* generate_content calls made for the current review
    oracle,      \* how the latest of these calls ended ("" before the first)
    response_text, \* response.text of the call that answered (<<>> if none did)
    outcome,     \* per sheet and row: how the row's handling ended
    log,         \* entries appended to json_error_log.txt by this run
    saves,       \* number of workbook.save calls
    run,         \* number of the process_reviews call (1 = first)
    resolved,    \* per run and sheet: the positions resolved at lines 63-94
    wb0          \* the workbook as load_workbook returned it

vars == <<api_key, pc, wb, si, ri, cols, attempt, sleeps, calls, oracle, response_text,
          outcome, log, saves, run, resolved, wb0>>

(***************************************************************************)
(* Bounds of the model.                                                    *)
(***************************************************************************)
NumSheets == 2
MaxRows == 2
MaxReviews == 2
MaxRuns == 2

(***************************************************************************)
(* Program constants.                                                      *)
(***************************************************************************)
max_retries == 5
backoff_base == 9

(***************************************************************************)
(* Text of header cells: str.strip() and str.lower() on character          *)
(* sequences.                                                              *)
(***************************************************************************)
UpperChars == <<"A", "B", "C", "D", "E", "F", "G", "H", "I", "J", "K", "L", "M",
                "N", "O", "P", "Q", "R", "S", "T", "U", "V", "W", "X", "Y", "Z">>
LowerChars == <<"a", "b", "c", "d", "e", "f", "g", "h", "i", "j", "k", "l", "m",
                "n", "o", "p", "q", "r", "s", "t", "u", "v", "w", "x", "y", "z">>

ToLower ==
    [u \in {UpperChars[i] : i \in 1..Len(UpperChars)} |->
       LowerChars[CHOOSE i \in 1..Len(UpperChars) : UpperChars[i] = u]]

LowerChar(c) == IF c \in DOMAIN ToLower THEN ToLower[c] ELSE c

str_lower(s) == [i \in 1..Len(s) |-> LowerChar(s[i])]

IsSpace(c) == c \in {" ", "\t", "\n"}

RECURSIVE LStrip(_)
LStrip(s) == IF s # <<>> /\ IsSpace(Head(s)) THEN LStrip(Tail(s)) ELSE s

RECURSIVE RStrip(_)
RStrip(s) ==
    IF s # <<>> /\ IsSpace(s[Len(s)]) THEN RStrip(SubSeq(s, 1, Len(s) - 1)) ELSE s

str_strip(s) == RStrip(LStrip(s))

(***************************************************************************)
(* Cell values.  t is the Python type of the value: "none" (None, an empty *)
(* cell), "str" or "num"; s is the text, n the number.                     *)
(***************************************************************************)
NoneCell == [t |-> "none", s |-> "", n |-> 0]
StrCell(x) == [t |-> "str", s |-> x, n |-> 0]
NumCell(k) == [t |-> "num", s |-> "", n |-> k]

HNone == [t |-> "none", s |-> <<>>, n |-> 0]
HStr(x) == [t |-> "str", s |-> x, n |-> 0]
HNum(k) == [t |-> "num", s |-> <<>>, n |-> k]

\* Python truth value of a header cell value (line 49, `cell.value and ...`)
HTruthy(v) == \/ v.t = "str" /\ v.s # <<>>
              \/ v.t = "num" /\ v.n # 0

\* a test for None only (`if review is not None:`)
TruthyNotNone(v) == v.t # "none"

\* Python truth value of a data cell value (line 99, `if review:`)
Truthy(v) == \/ v.t = "str" /\ v.s # ""
             \/ v.t = "num" /\ v.n # 0

(***************************************************************************)
(* The logical column names, as passed to get_column_index and as written  *)
(* into row 1.                                                             *)
(***************************************************************************)
ReviewsName == <<"R", "e", "v", "i", "e", "w", "s">>
SentimentName == <<"S", "e", "n", "t", "i", "m", "e", "n", "t">>
StaffName == <<"S", "t", "a", "f", "f", " ", "N", "a", "m", "e", "s">>
DishName == <<"D", "i", "s", "h", " ", "N", "a", "m", "e", "s">>
CategoryName == <<"C", "a", "t", "e", "g", "o", "r", "y">>

(***************************************************************************)
(* get_column_index(sheet, column_name), lines 46-51.  The result is       *)
(* [raised, idx]: raised when cell.value.strip() is evaluated on a value   *)
(* that is not text (AttributeError), idx = 0 for None.                    *)
(***************************************************************************)
RECURSIVE ScanHeader(_, _, _)
ScanHeader(header, column_name, i) ==
    IF i > Len(header) THEN [raised |-> FALSE, idx |-> 0]
    ELSE IF ~HTruthy(header[i]) THEN ScanHeader(header, column_name, i + 1)
    ELSE IF header[i].t # "str" THEN [raised |-> TRUE, idx |-> 0]
    ELSE IF str_lower(str_strip(header[i].s)) = str_lower(column_name)
         THEN [raised |-> FALSE, idx |-> i]
    ELSE ScanHeader(header, column_name, i + 1)

get_column_index(sheet, column_name) == ScanHeader(sheet.header, column_name, 1)

(***************************************************************************)
(* The worksheet interface used by process_reviews.                        *)
(***************************************************************************)
\* a width that leaves out the last column
max_column_short(sheet) == Len(sheet.header) - 1

max_column(sheet) == Len(sheet.header)

max_row(sheet) == Len(sheet.rows) + 1

Pad(row, width, blank) ==
    [c \in 1..width |-> IF c <= Len(row) THEN row[c] ELSE blank]

\* sheet.cell(row=1, column=column, value=name), lines 77, 82, 87, 92
write_header(sheet, column, name) ==
    LET width == IF column > max_column(sheet) THEN column ELSE max_column(sheet)
    IN  [header |-> [Pad(sheet.header, width, HNone) EXCEPT ![column] = HStr(name)],
         rows |-> [r \in 1..Len(sheet.rows) |-> Pad(sheet.rows[r], width, NoneCell)]]

\* a write that always lands in the first data row
sheet_cell_first_row(sheet, row, column, value) ==
    IF value.t = "none" THEN sheet
    ELSE [sheet EXCEPT !.rows[1][column] = value]

\* sheet.cell(row=row, column=column, value=value), lines 117-158: the cell
\* is assigned only when value is not None
sheet_cell(sheet, row, column, value) ==
    IF value.t = "none" THEN sheet
    ELSE [sheet EXCEPT !.rows[row - 1][column] = value]

(***************************************************************************)
(* Lines 62-94 of process_reviews: the lookups, the Reviews check and the  *)
(* appended header cells.  Result: raised (a lookup raised), skip (no      *)
(* Reviews column), the sheet after the header writes, and the positions.  *)
(***************************************************************************)
NoCols == [reviews |-> 0, sentiment |-> 0, staff |-> 0, dish |-> 0, category |-> 0]

\* lines 69-94, given the results of the five lookups
add_columns(sheet, sentiment0, staff0, dish0, category0, reviews0) ==
    LET next1 == max_column(sheet) + 1
        sheet1 == IF sentiment0.idx = 0 THEN write_header(sheet, next1, SentimentName)
                  ELSE sheet
        sentiment1 == IF sentiment0.idx = 0 THEN next1 ELSE sentiment0.idx
        next2 == IF sentiment0.idx = 0 THEN next1 + 1 ELSE next1
        sheet2 == IF staff0.idx = 0 THEN write_header(sheet1, next2, StaffName)
                  ELSE sheet1
        staff1 == IF staff0.idx = 0 THEN next2 ELSE staff0.idx
        next3 == IF staff0.idx = 0 THEN next2 + 1 ELSE next2
        sheet3 == IF dish0.idx = 0 THEN write_header(sheet2, next3, DishName)
                  ELSE sheet2
        dish1 == IF dish0.idx = 0 THEN next3 ELSE dish0.idx
        next4 == IF dish0.idx = 0 THEN next3 + 1 ELSE next3
        sheet4 == IF category0.idx = 0 THEN write_header(sheet3, next4, CategoryName)
                  ELSE sheet3
        category1 == IF category0.idx = 0 THEN next4 ELSE category0.idx
    IN  IF sentiment0.raised \/ staff0.raised \/ dish0.raised
           \/ category0.raised \/ reviews0.raised
        THEN [raised |-> TRUE, skip |-> FALSE, sheet |-> sheet, cols |-> NoCols]
        ELSE IF reviews0.idx = 0
        THEN [raised |-> FALSE, skip |-> TRUE, sheet |-> sheet, cols |-> NoCols]
        ELSE [raised |-> FALSE, skip |-> FALSE, sheet |-> sheet4,
              cols |-> [reviews |-> reviews0.idx, sentiment |-> sentiment1,
                        staff |-> staff1, dish |-> dish1, category |-> category1]]

\* a planner that appends Sentiment whether or not the lookup found it
plan_columns_append(sheet) ==
    IF get_column_index(sheet, SentimentName).raised
    THEN [raised |-> TRUE, skip |-> FALSE, sheet |-> sheet, cols |-> NoCols]
    ELSE add_columns(sheet,
                     [raised |-> FALSE, idx |-> 0],
                     get_column_index(sheet, StaffName),
                     get_column_index(sheet, DishName),
                     get_column_index(sheet, CategoryName),
                     get_column_index(sheet, ReviewsName))

\* lines 63-68, then lines 69-94
plan_columns(sheet) ==
    add_columns(sheet,
                get_column_index(sheet, SentimentName),
                get_column_index(sheet, StaffName),
                get_column_index(sheet, DishName),
                get_column_index(sheet, CategoryName),
                get_column_index(sheet, ReviewsName))

(***************************************************************************)
(* Oracle response texts are sequences of tokens: the backtick fence, the  *)
(* word json, white space, and a body.  str.replace and str.strip are      *)
(* computed on the tokens (lines 33 and 107).                              *)
(***************************************************************************)
\* the three backticks of a code fence (a backtick cannot appear in a string here)
Fence == "<fence>"
JsonWord == "json"
NL == "\n"

RECURSIVE TLStrip(_)
TLStrip(s) == IF s # <<>> /\ IsSpace(Head(s)) THEN TLStrip(Tail(s)) ELSE s

RECURSIVE TRStrip(_)
TRStrip(s) ==
    IF s # <<>> /\ IsSpace(s[Len(s)]) THEN TRStrip(SubSeq(s, 1, Len(s) - 1)) ELSE s

text_strip(s) == TRStrip(TLStrip(s))

\* .replace(fence + "json", "")
RECURSIVE replace_fence_json(_)
replace_fence_json(s) ==
    IF s = <<>> THEN <<>>
    ELSE IF Len(s) >= 2 /\ s[1] = Fence /\ s[2] = JsonWord
         THEN replace_fence_json(SubSeq(s, 3, Len(s)))
    ELSE <<Head(s)>> \o replace_fence_json(Tail(s))

\* .replace(fence, "")
replace_fence(s) == SelectSeq(s, LAMBDA tok : tok # Fence)

\* a stripping that removes the fences and leaves the word json
strip_only_fence(s) == text_strip(replace_fence(s))

\* line 107
strip_fences(s) == text_strip(replace_fence(replace_fence_json(s)))

(***************************************************************************)
(* Decoded JSON values.  t is the Python type after json.loads: "str",     *)
(* "none" (null), "num", "list" or "dict"; s is the text (for a number its *)
(* digits, for a dict its repr), items the elements of a list.             *)
(***************************************************************************)
JStr(x) == [t |-> "str", s |-> x, n |-> 0, items |-> <<>>]
JNull == [t |-> "none", s |-> "None", n |-> 0, items |-> <<>>]
JNum(k, digits) == [t |-> "num", s |-> digits, n |-> k, items |-> <<>>]
JList(xs) == [t |-> "list", s |-> "", n |-> 0, items |-> xs]
JDict(repr) == [t |-> "dict", s |-> repr, n |-> 0, items |-> <<>>]

\* elements of a list
EStr(x) == [t |-> "str", s |-> x]
ENull == [t |-> "none", s |-> "None"]

(***************************************************************************)
(* The JSON bodies the oracle may answer with, and json.loads on them      *)
(* (line 111).  A decoded object is a function from its keys to values.    *)
(***************************************************************************)
BodyFull ==
    "{\"sentiment\": \"positive\", \"staff_names\": [], \"dish_names\": [\"Pasta\"], \"category\": \"Food Quality\"}"
BodyFreeText ==
    "{\"sentiment\": \"Mostly happy\", \"staff_names\": [\"Ann\", \"Bob\"], \"dish_names\": [], \"category\": null}"
BodySparse ==
    "{\"staff_names\": \"Ann\"}"
BodyNullName ==
    "{\"sentiment\": \"negative\", \"staff_names\": [null], \"dish_names\": [], \"category\": \"Service\"}"
BodyListCategory ==
    "{\"sentiment\": \"neutral\", \"staff_names\": [], \"dish_names\": [], \"category\": [\"Service\"]}"
BodyOddNames ==
    "{\"sentiment\": \"neutral\", \"staff_names\": 7, \"dish_names\": {\"main\": \"Pasta\"}, \"category\": \"Ambience\"}"
BodyNullNames ==
    "{\"sentiment\": \"positive\", \"staff_names\": null, \"category\": \"Service\"}"
BodyArray ==
    "[\"positive\"]"
BodyProse ==
    "The review is positive."

\* err names the exception json.loads raised ("" when it returned)
Decoded(v) == [ok |-> TRUE, isdict |-> TRUE, d |-> v, err |-> ""]
DecodedOther == [ok |-> TRUE, isdict |-> FALSE, d |-> <<>>, err |-> ""]
\* json.JSONDecodeError; json.loads of a str never raises UnicodeDecodeError,
\* so this is the only failure json_loads gives
DecodeError == [ok |-> FALSE, isdict |-> FALSE, d |-> <<>>, err |-> "JSONDecodeError"]

json_loads(text) ==
    IF Len(text) # 1 THEN DecodeError
    ELSE CASE text[1] = BodyFull ->
                Decoded("sentiment" :> JStr("positive") @@ "staff_names" :> JList(<<>>)
                        @@ "dish_names" :> JList(<<EStr("Pasta")>>)
                        @@ "category" :> JStr("Food Quality"))
           [] text[1] = BodyFreeText ->
                Decoded("sentiment" :> JStr("Mostly happy")
                        @@ "staff_names" :> JList(<<EStr("Ann"), EStr("Bob")>>)
                        @@ "dish_names" :> JList(<<>>) @@ "category" :> JNull)
           [] text[1] = BodySparse ->
                Decoded("staff_names" :> JStr("Ann"))
           [] text[1] = BodyNullName ->
                Decoded("sentiment" :> JStr("negative") @@ "staff_names" :> JList(<<ENull>>)
                        @@ "dish_names" :> JList(<<>>) @@ "category" :> JStr("Service"))
           [] text[1] = BodyListCategory ->
                Decoded("sentiment" :> JStr("neutral") @@ "staff_names" :> JList(<<>>)
                        @@ "dish_names" :> JList(<<>>)
                        @@ "category" :> JList(<<EStr("Service")>>))
           [] text[1] = BodyOddNames ->
                Decoded("sentiment" :> JStr("neutral") @@ "staff_names" :> JNum(7, "7")
                        @@ "dish_names" :> JDict("{'main': 'Pasta'}")
                        @@ "category" :> JStr("Ambience"))
           [] text[1] = BodyNullNames ->
                Decoded("sentiment" :> JStr("positive") @@ "staff_names" :> JNull
                        @@ "category" :> JStr("Service"))
           [] text[1] = BodyArray -> DecodedOther
           [] OTHER -> DecodeError

\* data.get(key, default), lines 112-115
dict_get(d, key, default) == IF key \in DOMAIN d THEN d[key] ELSE default

(***************************************************************************)
(* The values handed to sheet.cell at lines 117-120.  Each is              *)
(* [raised, value]: storing a list or a dict in a cell raises ValueError,  *)
(* ', '.join raises TypeError on an element that is not text.              *)
(***************************************************************************)
RECURSIVE Join(_)
Join(xs) ==
    IF xs = <<>> THEN ""
    ELSE IF Len(xs) = 1 THEN xs[1].s
    ELSE xs[1].s \o ", " \o Join(Tail(xs))

\* value=sentiment, value=category
cell_value(v) ==
    CASE v.t = "str" -> [raised |-> FALSE, value |-> StrCell(v.s)]
      [] v.t = "num" -> [raised |-> FALSE, value |-> NumCell(v.n)]
      [] v.t = "none" -> [raised |-> FALSE, value |-> NoneCell]
      [] OTHER -> [raised |-> TRUE, value |-> NoneCell]

\* value=', '.join(names) if isinstance(names, list) else str(names)
names_value(v) ==
    IF v.t = "list"
    THEN IF \A i \in 1..Len(v.items) : v.items[i].t = "str"
         THEN [raised |-> FALSE, value |-> StrCell(Join(v.items))]
         ELSE [raised |-> TRUE, value |-> NoneCell]
    ELSE [raised |-> FALSE, value |-> StrCell(v.s)]

(***************************************************************************)
(* The row handler of process_reviews, lines 103-158, applied to the       *)
(* return value of generate_content_from_file.                             *)
(***************************************************************************)
\* a handler that marks the Sentiment cell only
write_sentinel_first(sheet, row, c, text) ==
    sheet_cell(sheet, row, c.sentiment, StrCell(text))

\* the four sheet.cell calls that store a sentinel
write_sentinel(sheet, row, c, text) ==
    LET s1 == sheet_cell(sheet, row, c.sentiment, StrCell(text))
        s2 == sheet_cell(s1, row, c.staff, StrCell(text))
        s3 == sheet_cell(s2, row, c.dish, StrCell(text))
    IN  sheet_cell(s3, row, c.category, StrCell(text))

\* lines 112-120: [raised, sheet], sheet holding the writes made before a raise
write_fields(sheet, row, c, d) ==
    LET sentiment == cell_value(dict_get(d, "sentiment", JStr("Unknown")))
        staff_names == names_value(dict_get(d, "staff_names", JList(<<>>)))
        dish_names == names_value(dict_get(d, "dish_names", JList(<<>>)))
        category == cell_value(dict_get(d, "category", JStr("Unknown")))
        s1 == sheet_cell(sheet, row, c.sentiment, sentiment.value)
        s2 == sheet_cell(s1, row, c.staff, staff_names.value)
        s3 == sheet_cell(s2, row, c.dish, dish_names.value)
        s4 == sheet_cell(s3, row, c.category, category.value)
    IN  IF sentiment.raised THEN [raised |-> TRUE, sheet |-> sheet]
        ELSE IF staff_names.raised THEN [raised |-> TRUE, sheet |-> s1]
        ELSE IF dish_names.raised THEN [raised |-> TRUE, sheet |-> s2]
        ELSE IF category.raised THEN [raised |-> TRUE, sheet |-> s3]
        ELSE [raised |-> FALSE, sheet |-> s4]

\* api_response: [none, text]; result: the sheet, the kind of outcome, the
\* JSON body whose fields were written ("" if none was) and the text logged
\* to json_error_log.txt (logged says whether an entry is written)
NoResponse == [none |-> TRUE, text |-> <<>>]
Response(text) == [none |-> FALSE, text |-> text]

handle_response(sheet, row, c, api_response) ==
    IF api_response.none \/ api_response.text = <<>>
    THEN [sheet |-> write_sentinel(sheet, row, c, "API Error"),
          kind |-> "API Error", body |-> "", logged |-> FALSE, text |-> <<>>]
    ELSE LET text == strip_fences(api_response.text)
             data == json_loads(text)
             w == write_fields(sheet, row, c, data.d)
         IN  IF ~data.ok /\ data.err = "JSONDecodeError"
             THEN [sheet |-> write_sentinel(sheet, row, c, "JSON Error"),
                   kind |-> "JSON Error", body |-> "", logged |-> TRUE, text |-> text]
             ELSE IF ~data.ok
             THEN [sheet |-> write_sentinel(sheet, row, c, "Encoding Error"),
                   kind |-> "Encoding Error", body |-> "", logged |-> FALSE,
                   text |-> <<>>]
             ELSE IF ~data.isdict
             THEN [sheet |-> write_sentinel(sheet, row, c, "Error"),
                   kind |-> "Error", body |-> "", logged |-> FALSE, text |-> <<>>]
             ELSE IF w.raised
             THEN [sheet |-> write_sentinel(w.sheet, row, c, "Error"),
                   kind |-> "Error", body |-> "", logged |-> FALSE, text |-> <<>>]
             ELSE [sheet |-> w.sheet, kind |-> "success", body |-> text[1],
                   logged |-> FALSE, text |-> <<>>]

(***************************************************************************)
(* generate_content_from_file, lines 29-43.                                *)
(***************************************************************************)
\* line 35
retry_allowed(a) == a < max_retries - 1

\* a linear schedule instead of the exponential one
sleep_time_linear(a) == backoff_base * a

\* line 36
sleep_time(a) == backoff_base ^ a

\* what response.text may be when generate_content succeeds
OracleTexts ==
    { <<BodyFull>>, <<Fence, JsonWord, NL, BodyFull, NL, Fence>>, <<BodyFreeText, NL>>,
      <<BodySparse>>, <<BodyNullName>>, <<BodyListCategory>>, <<BodyOddNames>>,
      <<BodyNullNames>>, <<BodyArray>>,
      <<BodyProse>>, <<Fence, JsonWord, NL, Fence>>, <<NL>> }

(***************************************************************************)
(* The workbooks of the model.  A sheet kind gives a header row and, for   *)
(* every data row, its Reviews cell; cells under an output column that     *)
(* exists before the run hold the sentinel of an earlier run.              *)
(***************************************************************************)
NameText == <<"N", "a", "m", "e">>
ReviewsPadded == <<" ", "R", "E", "V", "I", "E", "W", "S", " ">>
SentimentUpper == <<"S", "E", "N", "T", "I", "M", "E", "N", "T">>
CategoryPadded == <<"c", "a", "t", "e", "g", "o", "r", "y", " ">>

SheetKinds == {"fresh", "partial", "annotated", "noreviews", "number"}

HeaderOf(kind) ==
    CASE kind = "fresh" -> <<HStr(ReviewsName)>>
      [] kind = "partial" ->
            <<HStr(SentimentUpper), HStr(ReviewsPadded), HStr(CategoryPadded)>>
      [] kind = "annotated" ->
            <<HStr(ReviewsName), HStr(SentimentName), HStr(StaffName),
              HStr(DishName), HStr(CategoryName)>>
      [] kind = "noreviews" -> <<HStr(NameText), HNone>>
      [] kind = "number" -> <<HStr(NameText), HNum(2024)>>

\* the role of each column of the header: "in" the reviews, "out" an output
\* column, "other"
RolesOf(kind) ==
    CASE kind = "fresh" -> <<"in">>
      [] kind = "partial" -> <<"out", "in", "out">>
      [] kind = "annotated" -> <<"in", "out", "out", "out", "out">>
      [] kind = "noreviews" -> <<"other", "other">>
      [] kind = "number" -> <<"other", "other">>

GoodReview == StrCell("Great food!")

\* the Reviews cell of data row number r (r >= 2): the reviews are in rows 2
\* and 3, the rows after them have none
ReviewOf(kind, r) ==
    CASE kind = "fresh" -> IF r <= 3 THEN GoodReview ELSE NoneCell
      [] kind = "partial" -> IF r = 3 THEN GoodReview ELSE NoneCell
      [] kind = "annotated" -> IF r = 2 THEN GoodReview ELSE StrCell("")
      [] OTHER -> StrCell("n/a")

StaleOf(kind) == IF kind = "annotated" THEN StrCell("API Error") ELSE NoneCell

SheetOf(kind) ==
    [header |-> HeaderOf(kind),
     rows |-> [k \in 1..MaxRows |->
                 [c \in 1..Len(RolesOf(kind)) |->
                    CASE RolesOf(kind)[c] = "in" -> ReviewOf(kind, k + 1)
                      [] RolesOf(kind)[c] = "out" -> StaleOf(kind)
                      [] OTHER -> StrCell("n/a")]]]

\* the number of data rows of a sheet of this kind that hold a review
ReviewsIn(kind) ==
    IF \E c \in 1..Len(RolesOf(kind)) : RolesOf(kind)[c] = "in"
    THEN Cardinality({r \in 2..(MaxRows + 1) : ReviewOf(kind, r) = GoodReview})
    ELSE 0

RECURSIVE ReviewsUpTo(_, _)
ReviewsUpTo(f, n) == IF n = 0 THEN 0 ELSE ReviewsIn(f[n]) + ReviewsUpTo(f, n - 1)

\* the workbooks of NumSheets sheets with at most MaxReviews reviews
Workbooks ==
    {[s \in 1..NumSheets |-> SheetOf(f[s])] :
        f \in {g \in [1..NumSheets -> SheetKinds] : ReviewsUpTo(g, NumSheets) <= MaxReviews}}

\* workbooks with at most one review, for the runs that are repeated
SmallKinds == {"partial", "noreviews", "number"}
SmallWorkbooks ==
    {[s \in 1..NumSheets |-> SheetOf(f[s])] :
        f \in {g \in [1..NumSheets -> SmallKinds] : ReviewsUpTo(g, NumSheets) <= 1}}

(***************************************************************************)
(* Workbooks whose first sheet has, between a Name column and the Reviews  *)
(* column, any subset of the four output columns (1 Sentiment, 2 Staff     *)
(* Names, 3 Dish Names, 4 Category) in the reverse of the order in which   *)
(* process_reviews appends them.  Row 2 of that sheet holds a review.      *)
(***************************************************************************)
PlanHeader(present) ==
    <<HStr(NameText)>>
    \o (IF 4 \in present THEN <<HStr(CategoryName)>> ELSE <<>>)
    \o (IF 3 \in present THEN <<HStr(DishName)>> ELSE <<>>)
    \o (IF 2 \in present THEN <<HStr(StaffName)>> ELSE <<>>)
    \o (IF 1 \in present THEN <<HStr(SentimentName)>> ELSE <<>>)
    \o <<HStr(ReviewsName)>>

PlanSheet(present) ==
    LET header == PlanHeader(present)
    IN  [header |-> header,
         rows |-> [k \in 1..MaxRows |->
                     [c \in 1..Len(header) |->
                        IF c = 1 THEN StrCell("n/a")
                        ELSE IF c = Len(header) /\ k = 1 THEN GoodReview
                        ELSE NoneCell]]]

PlanSheets == {PlanSheet(present) : present \in SUBSET (1..4)}

\* the sheets after the first have no Reviews column
PlanWorkbooks ==
    {w \in [1..NumSheets -> PlanSheets \cup {SheetOf("noreviews"), SheetOf("number")}] :
        /\ w[1] \in PlanSheets
        /\ \A s \in 2..NumSheets : w[s] \notin PlanSheets}

(***************************************************************************)
(* State.                                                                  *)
(***************************************************************************)
Pending == [kind |-> "pending", called |-> FALSE, body |-> ""]

NoOutcome == [s \in 1..NumSheets |-> [r \in 2..(MaxRows + 1) |-> Pending]]

InitWith(books) ==
    /\ api_key \in BOOLEAN
    /\ pc = "main"
    /\ wb \in books
    /\ wb0 = wb
    /\ si = 0
    /\ ri = 0
    /\ cols = NoCols
    /\ attempt = 0
    /\ sleeps = <<>>
    /\ calls = 0
    /\ oracle = ""
    /\ response_text = <<>>
    /\ outcome = NoOutcome
    /\ log = <<>>
    /\ saves = 0
    /\ run = 1
    /\ resolved = [k \in 1..MaxRuns |-> [s \in 1..NumSheets |-> NoCols]]

Init == InitWith(Workbooks)

(***************************************************************************)
(* main, lines 170-181.                                                    *)
(***************************************************************************)
\* lines 174-176: no key, main returns
MainNoKey ==
    /\ pc = "main"
    /\ ~api_key
    /\ pc' = "exit"
    /\ UNCHANGED <<response_text, api_key, wb, wb0, si, ri, cols, attempt, sleeps, calls, oracle, outcome,
                   log, saves, run, resolved>>

\* a main that goes on without the key
MainRunAnyway ==
    /\ pc = "main"
    /\ pc' = "sheet"
    /\ si' = 1
    /\ UNCHANGED <<response_text, api_key, wb, wb0, ri, cols, attempt, sleeps, calls, oracle, outcome,
                   log, saves, run, resolved>>

\* lines 178-181 and 56: genai.configure, then process_reviews opens the workbook
MainRun ==
    /\ pc = "main"
    /\ api_key
    /\ pc' = "sheet"
    /\ si' = 1
    /\ UNCHANGED <<response_text, api_key, wb, wb0, ri, cols, attempt, sleeps, calls, oracle, outcome,
                   log, saves, run, resolved>>

(***************************************************************************)
(* process_reviews, lines 58-165.                                          *)
(***************************************************************************)
\* lines 58-94 for the next sheet: a lookup raises and the exception leaves
\* process_reviews and main
SheetRaises ==
    /\ pc = "sheet"
    /\ si <= Len(wb)
    /\ plan_columns(wb[si]).raised
    /\ pc' = "aborted"
    /\ UNCHANGED <<response_text, api_key, wb, wb0, si, ri, cols, attempt, sleeps, calls, oracle, outcome,
                   log, saves, run, resolved>>

\* lines 69-71: no Reviews column, continue with the next sheet
SheetSkipped ==
    /\ pc = "sheet"
    /\ si <= Len(wb)
    /\ ~plan_columns(wb[si]).raised
    /\ plan_columns(wb[si]).skip
    /\ si' = si + 1
    /\ UNCHANGED <<response_text, api_key, pc, wb, wb0, ri, cols, attempt, sleeps, calls, oracle, outcome,
                   log, saves, run, resolved>>

\* lines 62-96: the columns are resolved, missing ones appended, and the row
\* loop starts at row 2
SheetPlanned ==
    /\ pc = "sheet"
    /\ si <= Len(wb)
    /\ LET p == plan_columns(wb[si])
       IN  /\ ~p.raised
           /\ ~p.skip
           /\ wb' = [wb EXCEPT ![si] = p.sheet]
           /\ cols' = p.cols
           /\ resolved' = [resolved EXCEPT ![run][si] = p.cols]
    /\ pc' = "row"
    /\ ri' = 2
    /\ UNCHANGED <<response_text, api_key, wb0, si, attempt, sleeps, calls, oracle, outcome, log, saves,
                   run>>

\* line 97
review_of(sheet, c, row) ==
    IF Len(sheet.rows[row - 1]) >= c.reviews THEN sheet.rows[row - 1][c.reviews]
    ELSE NoneCell

\* a save inside the sheet loop
SheetDoneSaves ==
    /\ pc = "row"
    /\ ri > max_row(wb[si])
    /\ pc' = "sheet"
    /\ si' = si + 1
    /\ saves' = saves + 1
    /\ UNCHANGED <<response_text, api_key, wb, wb0, ri, cols, attempt, sleeps, calls, oracle, outcome,
                   log, run, resolved>>

\* line 96: iter_rows is exhausted, the sheet loop goes on
SheetDone ==
    /\ pc = "row"
    /\ ri > max_row(wb[si])
    /\ pc' = "sheet"
    /\ si' = si + 1
    /\ UNCHANGED <<response_text, api_key, wb, wb0, ri, cols, attempt, sleeps, calls, oracle, outcome,
                   log, saves, run, resolved>>

\* lines 97-99, 160-162: no review text, skip the row
RowSkipped ==
    /\ pc = "row"
    /\ ri <= max_row(wb[si])
    /\ ~Truthy(review_of(wb[si], cols, ri))
    /\ outcome' = [outcome EXCEPT ![si][ri].kind = "skipped"]
    /\ ri' = ri + 1
    /\ UNCHANGED <<response_text, api_key, pc, wb, wb0, si, cols, attempt, sleeps, calls, oracle,
                   log, saves, run, resolved>>

\* lines 97-101 and 29-30: generate_content_from_file is entered
ReviewStarts ==
    /\ pc = "row"
    /\ ri <= max_row(wb[si])
    /\ Truthy(review_of(wb[si], cols, ri))
    /\ pc' = "call"
    /\ attempt' = 0
    /\ sleeps' = <<>>
    /\ calls' = 0
    /\ oracle' = ""
    /\ response_text' = <<>>
    /\ UNCHANGED <<api_key, wb, wb0, si, ri, cols, outcome, log, saves, run, resolved>>

\* a handler that never opens json_error_log.txt
RowEndsUnlogged(res) ==
    /\ wb' = [wb EXCEPT ![si] = res.sheet]
    /\ outcome' = [outcome EXCEPT ![si][ri] =
                     [kind |-> res.kind, called |-> TRUE, body |-> res.body]]
    /\ log' = log
    /\ pc' = "row"
    /\ ri' = ri + 1

\* the row's handling ends: lines 103-158 on what generate_content_from_file
\* returned, then the next row
RowEnds(res) ==
    /\ wb' = [wb EXCEPT ![si] = res.sheet]
    /\ outcome' = [outcome EXCEPT ![si][ri] =
                     [kind |-> res.kind, called |-> TRUE, body |-> res.body]]
    /\ log' = IF res.logged
              THEN Append(log, [sheet |-> si, row |-> ri, response |-> res.text])
              ELSE log
    /\ pc' = "row"
    /\ ri' = ri + 1

\* line 32 raises ResourceExhausted, lines 34-38: sleep and try again
OracleRateLimited ==
    /\ pc = "call"
    /\ retry_allowed(attempt)
    /\ calls' = calls + 1
    /\ oracle' = "ResourceExhausted"
    /\ sleeps' = Append(sleeps, sleep_time(attempt))
    /\ attempt' = attempt + 1
    /\ outcome' = [outcome EXCEPT ![si][ri].called = TRUE]
    /\ UNCHANGED <<response_text, api_key, pc, wb, wb0, si, ri, cols, log, saves, run, resolved>>

\* the exhausted budget handled like a missing response
OracleExhaustedNoResponse ==
    /\ pc = "call"
    /\ ~retry_allowed(attempt)
    /\ calls' = calls + 1
    /\ oracle' = "ResourceExhausted"
    /\ RowEnds(handle_response(wb[si], ri, cols, NoResponse))
    /\ UNCHANGED <<response_text, api_key, wb0, si, cols, attempt, sleeps, saves, run, resolved>>

\* line 32 raises ResourceExhausted on the last attempt, lines 39-40: raise e,
\* caught at line 153
OracleExhausted ==
    /\ pc = "call"
    /\ ~retry_allowed(attempt)
    /\ calls' = calls + 1
    /\ oracle' = "ResourceExhausted"
    /\ RowEnds([sheet |-> write_sentinel(wb[si], ri, cols, "Error"),
                kind |-> "Error", body |-> "", logged |-> FALSE, text |-> <<>>])
    /\ UNCHANGED <<response_text, api_key, wb0, si, cols, attempt, sleeps, saves, run, resolved>>

\* any exception handled like ResourceExhausted: sleep and try again
OracleFailsRetried ==
    /\ pc = "call"
    /\ retry_allowed(attempt)
    /\ calls' = calls + 1
    /\ oracle' = "Exception"
    /\ sleeps' = Append(sleeps, sleep_time(attempt))
    /\ attempt' = attempt + 1
    /\ outcome' = [outcome EXCEPT ![si][ri].called = TRUE]
    /\ UNCHANGED <<response_text, api_key, pc, wb, wb0, si, ri, cols, log, saves, run, resolved>>

\* lines 32-33 raise another exception, lines 41-43: return None
OracleFails ==
    /\ pc = "call"
    /\ calls' = calls + 1
    /\ oracle' = "Exception"
    /\ RowEnds(handle_response(wb[si], ri, cols, NoResponse))
    /\ UNCHANGED <<response_text, api_key, wb0, si, cols, attempt, sleeps, saves, run, resolved>>

\* lines 32-33: return response.text.strip()
OracleAnswers ==
    /\ pc = "call"
    /\ calls' = calls + 1
    /\ oracle' = "text"
    /\ \E t \in OracleTexts :
         /\ response_text' = t
         /\ RowEnds(handle_response(wb[si], ri, cols, Response(text_strip(t))))
    /\ UNCHANGED <<api_key, wb0, si, cols, attempt, sleeps, saves, run, resolved>>

\* line 164: workbook.save, and process_reviews returns
Save ==
    /\ pc = "sheet"
    /\ si > Len(wb)
    /\ saves' = saves + 1
    /\ pc' = "done"
    /\ UNCHANGED <<response_text, api_key, wb, wb0, si, ri, cols, attempt, sleeps, calls, oracle, outcome,
                   log, run, resolved>>

Next ==
    \/ MainNoKey
    \/ MainRun
    \/ SheetRaises
    \/ SheetSkipped
    \/ SheetPlanned
    \/ SheetDone
    \/ RowSkipped
    \/ ReviewStarts
    \/ OracleRateLimited
    \/ OracleExhausted
    \/ OracleFails
    \/ OracleAnswers
    \/ Save

Spec == Init /\ [][Next]_vars

\* the runs on the workbooks with every subset of the output columns
InitPlan == InitWith(PlanWorkbooks)

SpecPlan == InitPlan /\ [][Next]_vars

(***************************************************************************)
(* Lines 184-185: the exit status of the process.  main returns at line    *)
(* 176 (no key) or after process_reviews (line 181) and the interpreter    *)
(* exits with 0; an exception that leaves main ends it with 1.  The value  *)
(* is -1 while the program runs.                                           *)
(***************************************************************************)
exit_status ==
    CASE pc \in {"exit", "done"} -> 0
      [] pc = "aborted" -> 1
      [] OTHER -> -1

(***************************************************************************)
(* The program is run again, with the key set, on the file it saved: the   *)
(* workbook it opens is the one the run before it wrote.                   *)
(***************************************************************************)
Rerun ==
    /\ pc = "done"
    /\ run < MaxRuns
    /\ run' = run + 1
    /\ wb0' = wb
    /\ pc' = "sheet"
    /\ si' = 1
    /\ ri' = 0
    /\ cols' = NoCols
    /\ attempt' = 0
    /\ sleeps' = <<>>
    /\ calls' = 0
    /\ oracle' = ""
    /\ outcome' = NoOutcome
    /\ saves' = 0
    /\ log' = <<>>
    /\ response_text' = <<>>
    /\ UNCHANGED <<api_key, wb, resolved>>

InitRerun == InitWith(SmallWorkbooks)

NextRerun == Next \/ Rerun

SpecRerun == InitRerun /\ [][NextRerun]_vars

(***************************************************************************)
(* Vocabulary of the properties.                                           *)
(***************************************************************************)
Rows == 2..(MaxRows + 1)
Sheets == 1..NumSheets

\* the sheet was not skipped in the current run
Planned(s) == resolved[run][s] # NoCols

\* the four output cells of a row, in the order Sentiment, Staff Names,
\* Dish Names, Category
OutCells(s, r) ==
    LET c == resolved[run][s]
        row == wb[s].rows[r - 1]
    IN  <<row[c.sentiment], row[c.staff], row[c.dish], row[c.category]>>

Sentinels == {"Error", "JSON Error", "Encoding Error", "API Error"}

AllFour(text) == <<StrCell(text), StrCell(text), StrCell(text), StrCell(text)>>

\* the annotation each body that decodes to a usable object stands for
\* (NoneCell for null), written out value by value; <<>> for any other body
Expected(body) ==
    CASE body = BodyFull ->
            <<StrCell("positive"), StrCell(""), StrCell("Pasta"), StrCell("Food Quality")>>
      [] body = BodyFreeText ->
            <<StrCell("Mostly happy"), StrCell("Ann, Bob"), StrCell(""), NoneCell>>
      [] body = BodySparse ->
            <<StrCell("Unknown"), StrCell("Ann"), StrCell(""), StrCell("Unknown")>>
      [] body = BodyOddNames ->
            <<StrCell("neutral"), StrCell("7"), StrCell("{'main': 'Pasta'}"),
              StrCell("Ambience")>>
      [] body = BodyNullNames ->
            <<StrCell("positive"), StrCell("None"), StrCell(""), StrCell("Service")>>
      [] OTHER -> <<>>

ExpectedOf(s, r) == Expected(outcome[s][r].body)

\* the row whose handling ended last, while the row loop is at the next row
AtNextRow == pc = "row" /\ ri > 2
LastRow == outcome[si][ri - 1]

BackoffSchedule == <<1, 9, 81, 729>>

(***************************************************************************)
(* C1: the sleeps of one review are 1, 9, 81, 729 in this order, one after *)
(* each rate-limited attempt and none otherwise; after k < 5 rate-limited  *)
(* attempts the answer of attempt k + 1 ends the call; the fifth           *)
(* rate-limited attempt is raised with no sleep and no sixth call.         *)
(***************************************************************************)
C1_BackoffSchedule ==
    /\ Len(sleeps) <= 4
    /\ sleeps = SubSeq(BackoffSchedule, 1, Len(sleeps))
    /\ calls <= 5
    /\ pc = "call" => calls = Len(sleeps) /\ calls <= 4
    /\ (pc # "call" /\ calls > 0) => calls = Len(sleeps) + 1
    /\ (pc # "call" /\ oracle = "ResourceExhausted") =>
           calls = 5 /\ sleeps = BackoffSchedule
    /\ (AtNextRow /\ LastRow.called /\ oracle = "ResourceExhausted") =>
           LastRow.kind = "Error"
    /\ (AtNextRow /\ LastRow.called /\ oracle = "text") =>
           /\ LastRow.kind # "pending"
           /\ LastRow.kind = "success" => ExpectedOf(si, ri - 1) # <<>>

\* four rate-limited attempts, then an answer that is written to the row
C1_Witness ==
    /\ AtNextRow
    /\ LastRow.kind = "success"
    /\ oracle = "text"
    /\ sleeps = BackoffSchedule
    /\ calls = 5

(***************************************************************************)
(* C2: a failing row gets a sentinel in its four output cells, a row whose *)
(* call and parse succeed holds its annotation values, the rows before the *)
(* current one have all been handled, and no step of the row loop ends the *)
(* run.                                                                    *)
(***************************************************************************)
C2_RowState ==
    \A s \in Sheets : \A r \in Rows :
      Planned(s) =>
        /\ outcome[s][r].kind \in Sentinels =>
              OutCells(s, r) = AllFour(outcome[s][r].kind)
        /\ outcome[s][r].kind = "success" =>
              /\ ExpectedOf(s, r) # <<>>
              /\ \A i \in 1..4 : ExpectedOf(s, r)[i] # NoneCell =>
                                   OutCells(s, r)[i] = ExpectedOf(s, r)[i]
        /\ outcome[s][r].kind \in Sentinels \cup {"success", "skipped", "pending"}
        /\ (s < si \/ (s = si /\ pc \in {"row", "call"} /\ r < ri)) =>
              outcome[s][r].kind # "pending"
        /\ (outcome[s][r].called /\ ~(pc = "call" /\ s = si /\ r = ri)) =>
              outcome[s][r].kind \in Sentinels \cup {"success"}

C3_NoRetry ==
    /\ [](pc = "call" => oracle \in {"", "ResourceExhausted"})
    /\ [][(pc = "call" /\ oracle' = "Exception") =>
            /\ sleeps' = sleeps
            /\ calls' = calls + 1
            /\ pc' = "row"
            /\ ri' = ri + 1
            /\ si' = si
            /\ outcome'[si][ri].kind = "API Error"
            /\ wb'[si].rows[ri - 1][cols.sentiment] = StrCell("API Error")]_vars

\* the error came after two rate-limited attempts of the same review
C3_Witness ==
    /\ AtNextRow
    /\ oracle = "Exception"
    /\ sleeps = <<1, 9>>
    /\ calls = 3
    /\ LastRow.kind = "API Error"

(***************************************************************************)
(* C4: after a row with a review is handled, its four output cells hold    *)
(* either the values of one decoded response or four times the same        *)
(* sentinel.                                                               *)
(***************************************************************************)
C4_TwoShapes ==
    \A s \in Sheets : \A r \in Rows :
      (Planned(s) /\ outcome[s][r].kind \in Sentinels \cup {"success"}) =>
        \/ /\ outcome[s][r].kind = "success"
           /\ OutCells(s, r) = ExpectedOf(s, r)
        \/ /\ outcome[s][r].kind \in Sentinels
           /\ OutCells(s, r) = AllFour(outcome[s][r].kind)

(***************************************************************************)
(* C5: a call of process_reviews saves at most once, only when every sheet *)
(* has been passed and every row of the sheets it processes handled; a     *)
(* call that returns has saved once; nothing is written or asked of the    *)
(* oracle after the save.                                                  *)
(***************************************************************************)
AllHandled ==
    \A s \in Sheets : \A r \in Rows : Planned(s) => outcome[s][r].kind # "pending"

C5_SaveState ==
    /\ saves <= 1
    /\ saves = 1 => pc = "done" /\ si > NumSheets /\ AllHandled
    /\ pc = "done" => saves = 1
    /\ pc \in {"row", "call"} => saves = 0

C6_AlwaysSaves == pc \in {"done", "aborted"} => saves = 1

(***************************************************************************)
(* C7: a row whose Reviews cell is empty or None gets no oracle call, none *)
(* of its cells changes, and the loop passes it as skipped.                *)
(***************************************************************************)
EmptyReview(v) == v = NoneCell \/ v = StrCell("")

C7_EmptySkip ==
    \A s \in Sheets : \A r \in Rows :
      (Planned(s) /\ EmptyReview(wb0[s].rows[r - 1][resolved[run][s].reviews])) =>
        /\ ~outcome[s][r].called
        /\ ~(pc = "call" /\ si = s /\ ri = r)
        /\ outcome[s][r].kind \in {"pending", "skipped"}
        /\ wb[s].rows[r - 1] = Pad(wb0[s].rows[r - 1], Len(wb[s].header), NoneCell)
        /\ (s < si \/ (s = si /\ pc \in {"row", "call"} /\ r < ri)) =>
              outcome[s][r].kind = "skipped"

\* in one sheet a row without a value was skipped and the row after it
\* annotated; in another a row with empty text was skipped
C7_Witness ==
    /\ pc = "done"
    /\ \E s \in Sheets :
         /\ Planned(s)
         /\ wb0[s].rows[1][resolved[run][s].reviews] = NoneCell
         /\ outcome[s][2].kind = "skipped"
         /\ outcome[s][3].kind = "success"
    /\ \E s \in Sheets :
         /\ Planned(s)
         /\ wb0[s].rows[2][resolved[run][s].reviews] = StrCell("")
         /\ outcome[s][3].kind = "skipped"

(***************************************************************************)
(* C8: a sheet whose header has the four output columns gets no header     *)
(* cell added, and the positions resolved in a later run are those of the  *)
(* first run.                                                              *)
(***************************************************************************)
HasColumn(header, name) ==
    \E i \in 1..Len(header) :
      header[i].t = "str" /\ str_lower(str_strip(header[i].s)) = str_lower(name)

HasAllOutputs(header) ==
    /\ HasColumn(header, SentimentName)
    /\ HasColumn(header, StaffName)
    /\ HasColumn(header, DishName)
    /\ HasColumn(header, CategoryName)

C8_IdempotentColumns ==
    \A s \in Sheets :
      /\ HasAllOutputs(wb0[s].header) => wb[s].header = wb0[s].header
      /\ \A k \in 2..run :
           resolved[k][s] # NoCols => resolved[k][s] = resolved[1][s]

\* a second run has resolved the columns the first run appended
C8_Witness ==
    /\ run = 2
    /\ \E s \in Sheets :
         /\ Planned(s)
         /\ HasAllOutputs(wb0[s].header)
         /\ resolved[1][s] = resolved[2][s]
         /\ resolved[2][s].staff = 4

(***************************************************************************)
(* C9: a sheet without a Reviews column is passed over with no cell        *)
(* written and no oracle call, and the run goes on with the next sheet.    *)
(***************************************************************************)
C9_SheetExcluded ==
    [][(pc = "sheet" /\ si <= NumSheets /\ ~HasColumn(wb[si].header, ReviewsName)) =>
         (wb' = wb /\ calls' = calls /\ pc' = "sheet" /\ si' = si + 1)]_vars

(***************************************************************************)
(* C10: the Sentiment cell of an annotated row holds Positive, Negative,   *)
(* Neutral or Unknown.                                                     *)
(***************************************************************************)
C10_SentimentEnum ==
    \A s \in Sheets : \A r \in Rows :
      (Planned(s) /\ outcome[s][r].kind = "success") =>
        OutCells(s, r)[1] \in {StrCell("Positive"), StrCell("Negative"),
                              StrCell("Neutral"), StrCell("Unknown")}

(***************************************************************************)
(* C11: when the response decodes to an object whose sentiment and         *)
(* category can be stored, the row ends as a success whatever staff_names  *)
(* and dish_names hold, and a value that is not a list is written as its   *)
(* string representation.                                                  *)
(***************************************************************************)
\* the response decodes to an object, and neither the sentiment nor the
\* category of the object stands in the way of the row
StorableObject(text) ==
    LET data == json_loads(strip_fences(text_strip(text)))
    IN  /\ data.ok
        /\ data.isdict
        /\ ~cell_value(dict_get(data.d, "sentiment", JStr("Unknown"))).raised
        /\ ~cell_value(dict_get(data.d, "category", JStr("Unknown"))).raised

C11_NamesNeverFail ==
    (AtNextRow /\ LastRow.called /\ oracle = "text" /\ StorableObject(response_text)) =>
        /\ LastRow.kind = "success"
        /\ OutCells(si, ri - 1)[2] = ExpectedOf(si, ri - 1)[2]
        /\ OutCells(si, ri - 1)[3] = ExpectedOf(si, ri - 1)[3]

(***************************************************************************)
(* C12: json_error_log.txt only grows, by one entry at a time; an entry is *)
(* appended exactly when the response text of a row fails JSON decoding,   *)
(* it names the sheet and the row and holds that text, and the row gets    *)
(* the JSON Error sentinel; rows that succeed, are skipped or fail in      *)
(* another way leave no entry.                                             *)
(***************************************************************************)
EntriesOf(s, r) == {i \in 1..Len(log) : log[i].sheet = s /\ log[i].row = r}

C12_LogState ==
    /\ \A s \in Sheets : \A r \in Rows :
          Cardinality(EntriesOf(s, r)) = IF outcome[s][r].kind = "JSON Error" THEN 1 ELSE 0
    /\ \A i \in 1..Len(log) :
          /\ log[i].sheet \in Sheets
          /\ log[i].row \in Rows
          /\ ~json_loads(log[i].response).ok
    /\ \A s \in Sheets : \A r \in Rows :
          (Planned(s) /\ outcome[s][r].kind = "JSON Error") =>
              OutCells(s, r) = AllFour("JSON Error")

C12_LogOnly ==
    /\ []C12_LogState
    /\ [][\/ log' = log
           \/ /\ pc = "call"
              /\ oracle' = "text"
              /\ ~json_loads(strip_fences(text_strip(response_text'))).ok
              /\ log' = Append(log, [sheet |-> si, row |-> ri,
                                     response |-> strip_fences(text_strip(response_text'))])]_vars

\* a run that is over: one row failed JSON decoding and is logged, another
\* row failed because the decoded value is not an object and is not
C12_Witness ==
    /\ pc = "done"
    /\ Len(log) = 1
    /\ log[1].response = <<BodyProse>>
    /\ outcome[log[1].sheet][log[1].row].kind = "JSON Error"
    /\ \E s \in Sheets : \E r \in Rows : outcome[s][r].kind = "Error"
    /\ \E s \in Sheets : \E r \in Rows : outcome[s][r].kind = "skipped"

(***************************************************************************)
(* C13: without the API key main only returns: the program never passes    *)
(* genai.configure, never opens the workbook, calls the oracle for no row, *)
(* writes no cell, logs nothing and does not save.                         *)
(***************************************************************************)
C13_NoKeyState ==
    ~api_key =>
        /\ pc \in {"main", "exit"}
        /\ si = 0
        /\ wb = wb0
        /\ calls = 0
        /\ oracle = ""
        /\ outcome = NoOutcome
        /\ resolved[run] = [s \in Sheets |-> NoCols]
        /\ log = <<>>
        /\ saves = 0

C13_NoPartialExecution ==
    /\ []C13_NoKeyState
    /\ [][~api_key => (pc = "main" /\ pc' = "exit")]_vars

\* main has returned for want of the key
C13_Witness == ~api_key /\ pc = "exit"

(***************************************************************************)
(* C14: a program that ends for want of the API key ends with a non-zero   *)
(* exit status, and the exit status is 0 only after a completed run.       *)
(***************************************************************************)
C14_ExitStatus ==
    /\ (pc = "exit" /\ ~api_key) => exit_status > 0
    /\ exit_status = 0 => pc = "done"

(***************************************************************************)
(* C15: for every JSON object text x, the row handler gives the same       *)
(* outcome and the same cells for x inside a json code fence as for x      *)
(* alone, and a row answered with a fenced x holds what x alone gives.     *)
(***************************************************************************)
AllBodies == {BodyFull, BodyFreeText, BodySparse, BodyNullName, BodyListCategory,
              BodyOddNames, BodyNullNames, BodyArray, BodyProse}

ObjectBodies == {x \in AllBodies : json_loads(<<x>>).isdict}

\* x in a code fence, on lines of its own and on one line
Fenced(x) == <<Fence, JsonWord, NL, x, NL, Fence>>
FencedInline(x) == <<Fence, JsonWord, x, Fence>>

Handled(row, text) == handle_response(wb[si], row, cols, Response(text_strip(text)))

C15_FencedSame ==
    /\ pc = "call" =>
          \A x \in ObjectBodies :
            /\ Handled(ri, Fenced(x)) = Handled(ri, <<x>>)
            /\ Handled(ri, FencedInline(x)) = Handled(ri, <<x>>)
    /\ (AtNextRow /\ LastRow.called /\ oracle = "text") =>
          \A x \in ObjectBodies :
            response_text = Fenced(x) =>
              /\ LastRow.kind = Handled(ri - 1, <<x>>).kind
              /\ LastRow.body = Handled(ri - 1, <<x>>).body
              /\ wb[si] = Handled(ri - 1, <<x>>).sheet

\* a row answered with a fenced object holds the values of the object
C15_Witness ==
    /\ AtNextRow
    /\ LastRow.called
    /\ oracle = "text"
    /\ response_text = Fenced(BodyFull)
    /\ LastRow.kind = "success"
    /\ OutCells(si, ri - 1) = Expected(BodyFull)

(***************************************************************************)
(* C16: in a row that ended as a success, the cell of row r under the      *)
(* column resolved for Sentiment holds the sentiment of the decoded object *)
(* (Unknown without the key), the cells under Staff Names and Dish Names   *)
(* hold the names joined by ", " in their order (empty without the key),   *)
(* the cell under Category holds the category (Unknown without the key),   *)
(* and row 1 of each of these columns holds the column's name.             *)
(***************************************************************************)
Named(s, column, name) ==
    LET h == wb[s].header[column]
    IN  h.t = "str" /\ str_lower(str_strip(h.s)) = str_lower(name)

C16_WriteBack ==
    \A s \in Sheets : \A r \in Rows :
      (Planned(s) /\ outcome[s][r].kind = "success") =>
        LET c == resolved[run][s]
            row == wb[s].rows[r - 1]
            want == ExpectedOf(s, r)
        IN  /\ Named(s, c.sentiment, SentimentName) /\ row[c.sentiment] = want[1]
            /\ Named(s, c.staff, StaffName) /\ row[c.staff] = want[2]
            /\ Named(s, c.dish, DishName) /\ row[c.dish] = want[3]
            /\ Named(s, c.category, CategoryName) /\ row[c.category] = want[4]
            /\ row[c.reviews] = wb0[s].rows[r - 1][c.reviews]

(***************************************************************************)
(* C17: the sentinel of a failed row follows from the kind of the failure: *)
(* API Error for an oracle error other than the rate limit and for an      *)
(* empty response, JSON Error for a text that does not decode, Error for   *)
(* an exhausted retry budget, for a decoded value that is not an object    *)
(* and for a field that cannot be joined or stored; the four cells of the  *)
(* row hold that one sentinel.                                             *)
(***************************************************************************)
EmptyTexts == {<<NL>>}
UndecodableTexts == {<<BodyProse>>, <<Fence, JsonWord, NL, Fence>>}
NotObjectTexts == {<<BodyArray>>}
UnusableFieldTexts == {<<BodyNullName>>, <<BodyListCategory>>}

\* what went wrong in the row handled last ("nothing" if nothing did)
Failure ==
    CASE oracle = "Exception" -> "oracle error"
      [] oracle = "ResourceExhausted" -> "retries exhausted"
      [] oracle = "text" /\ response_text \in EmptyTexts -> "empty response"
      [] oracle = "text" /\ response_text \in UndecodableTexts -> "not JSON"
      [] oracle = "text" /\ response_text \in NotObjectTexts -> "not an object"
      [] oracle = "text" /\ response_text \in UnusableFieldTexts -> "unusable field"
      [] OTHER -> "nothing"

SentinelOf(failure) ==
    CASE failure \in {"oracle error", "empty response"} -> "API Error"
      [] failure = "not JSON" -> "JSON Error"
      [] failure \in {"retries exhausted", "not an object", "unusable field"} -> "Error"
      [] OTHER -> "success"

C17_SentinelByKind ==
    (AtNextRow /\ LastRow.called) =>
        /\ LastRow.kind = SentinelOf(Failure)
        /\ LastRow.kind \in Sentinels =>
              /\ OutCells(si, ri - 1) = AllFour(LastRow.kind)
              /\ \A other \in Sentinels \ {LastRow.kind} :
                    \A i \in 1..4 : OutCells(si, ri - 1)[i] # StrCell(other)

\* row 2 ended with JSON Error, and row 3, whose category cannot be stored,
\* with Error
C17_Witness ==
    /\ AtNextRow
    /\ ri = 4
    /\ outcome[si][2].kind = "JSON Error"
    /\ OutCells(si, 2) = AllFour("JSON Error")
    /\ oracle = "text"
    /\ response_text = <<BodyListCategory>>
    /\ LastRow.kind = "Error"

(***************************************************************************)
(* C18: whatever subset of the four output columns the header holds, each  *)
(* column that is present is resolved to its position, the missing ones    *)
(* get the positions after the last column, one after the other in the     *)
(* order Sentiment, Staff Names, Dish Names, Category, their names are     *)
(* written into row 1, and the positions do not change while the rows of   *)
(* the sheet are handled.                                                  *)
(***************************************************************************)
OutputNames == <<SentimentName, StaffName, DishName, CategoryName>>

FirstMatch(header, name) ==
    IF HasColumn(header, name)
    THEN CHOOSE i \in 1..Len(header) :
           /\ HasColumn(<<header[i]>>, name)
           /\ \A j \in 1..(i - 1) : ~HasColumn(<<header[j]>>, name)
    ELSE 0

Missing(header) == {i \in 1..4 : ~HasColumn(header, OutputNames[i])}

\* missing is Missing(header)
WantedPosition(header, missing, i) ==
    IF i \in missing
    THEN Len(header) + Cardinality({j \in missing : j <= i})
    ELSE FirstMatch(header, OutputNames[i])

C18_PlanState ==
    \A s \in Sheets :
      Planned(s) =>
        LET h0 == wb0[s].header
            c == resolved[run][s]
            pos == <<c.sentiment, c.staff, c.dish, c.category>>
            missing == Missing(h0)
        IN  /\ \A i \in 1..4 : pos[i] = WantedPosition(h0, missing, i)
            /\ Len(wb[s].header) = Len(h0) + Cardinality(missing)
            /\ SubSeq(wb[s].header, 1, Len(h0)) = h0
            /\ \A i \in missing : wb[s].header[pos[i]] = HStr(OutputNames[i])
            /\ (s = si /\ (pc = "row" \/ pc = "call")) => cols = c

C18_ColumnPlanning ==
    /\ []C18_PlanState
    /\ [][(pc = "row" \/ pc = "call") => cols' = cols]_vars

\* the header was Name, Category, Staff Names, Reviews: Sentiment went to
\* column 5 and Dish Names to column 6, and the review of row 2 was annotated
C18_Witness ==
    /\ pc = "done"
    /\ wb0[1].header = PlanHeader({2, 4})
    /\ resolved[run][1] = [reviews |-> 4, sentiment |-> 5, staff |-> 3, dish |-> 6,
                           category |-> 2]
    /\ wb[1].header[5] = HStr(SentimentName)
    /\ wb[1].header[6] = HStr(DishName)
    /\ outcome[1][2].kind = "success"

(***************************************************************************)
(* C19: a lookup made for a sheet does not fail, whatever the header cells *)
(* hold: it gives the position of the first cell whose text, trimmed and   *)
(* in lower case, is the name in lower case, and no position when there is *)
(* no such cell; so no run ends in the lookups of a sheet.                 *)
(***************************************************************************)
LookupNames == {ReviewsName, SentimentName, StaffName, DishName, CategoryName}

C19_LookupTotal ==
    /\ (pc = "sheet" /\ si <= NumSheets) =>
          \A name \in LookupNames :
            /\ ~get_column_index(wb[si], name).raised
            /\ get_column_index(wb[si], name).idx = FirstMatch(wb[si].header, name)
    /\ pc # "aborted"

(***************************************************************************)
(* C20: in a processed sheet the five resolved positions are pairwise      *)
(* distinct; the header cells the sheet had are kept and the header cells  *)
(* added are those of appended output columns; a data cell differs from    *)
(* the loaded one only under an output column and only in a row that holds *)
(* a review; a sheet that is not processed is not changed; and the         *)
(* handling of row r changes no header cell and no cell of another row.    *)
(***************************************************************************)
C20_FrameState ==
    \A s \in Sheets :
      /\ ~Planned(s) => wb[s] = wb0[s]
      /\ Planned(s) =>
            LET c == resolved[run][s]
                h0 == wb0[s].header
                outs == {c.sentiment, c.staff, c.dish, c.category}
            IN  /\ Cardinality(outs \cup {c.reviews}) = 5
                /\ SubSeq(wb[s].header, 1, Len(h0)) = h0
                /\ \A col \in (Len(h0) + 1)..Len(wb[s].header) : col \in outs
                /\ \A r \in Rows :
                      IF Truthy(wb0[s].rows[r - 1][c.reviews])
                      THEN \A col \in 1..Len(wb[s].header) :
                             col \notin outs =>
                               wb[s].rows[r - 1][col] =
                                 IF col <= Len(h0) THEN wb0[s].rows[r - 1][col]
                                 ELSE NoneCell
                      ELSE wb[s].rows[r - 1] =
                             Pad(wb0[s].rows[r - 1], Len(wb[s].header), NoneCell)

C20_Frame ==
    /\ []C20_FrameState
    /\ [][((pc = "row" \/ pc = "call") /\ wb' # wb) =>
            \A s \in Sheets :
              /\ wb'[s].header = wb[s].header
              /\ \A r \in Rows :
                    (s # si \/ r # ri) => wb'[s].rows[r - 1] = wb[s].rows[r - 1]]_vars

\* a sheet with header SENTIMENT, Reviews, category got two columns
\* appended; its row 2, without a review, is as loaded and its row 3 is
\* annotated
C20_Witness ==
    /\ pc = "done"
    /\ \E s \in Sheets :
         /\ Planned(s)
         /\ Len(wb0[s].header) = 3
         /\ resolved[run][s] = [reviews |-> 2, sentiment |-> 1, staff |-> 4, dish |-> 5,
                                category |-> 3]
         /\ wb[s].rows[1] = Pad(wb0[s].rows[1], 5, NoneCell)
         /\ outcome[s][3].kind = "success"
         /\ wb[s].rows[2][1] # wb0[s].rows[2][1]
         /\ wb[s].rows[2][2] = wb0[s].rows[2][2]

====
